---------------------------- MODULE Spec2Model ----------------------------
(***************************************************************************)
(* A model of risk_core.py: the three estimators (_shannon_entropy,        *)
(* _mutual_information_norm, _hurst_exponent_rs) and detect_risk_factors   *)
(* with its threshold classifier.                                          *)
(*                                                                         *)
(* Numbers.  Floats are modelled by exact rationals (a Score is NaN or     *)
(* num/den); np.log2 is a fixed-point table in thousandths of a bit.       *)
(* Histogram bin edges, means and variances are computed exactly, so the   *)
(* model says nothing about rounding in the last place.                    *)
(*                                                                         *)
(* Each component has its own specification: Init draws the arguments of   *)
(* one call from bounded sets ("ready"), the action runs the code on them  *)
(* ("done").  The numpy global random generator is the one piece of state  *)
(* that outlives a call; it is the variable rng.                           *)
(***************************************************************************)
EXTENDS Integers, Sequences, FiniteSets

VARIABLES rng, ent, mi, hu, cls, det

vars == <<rng, ent, mi, hu, cls, det>>

-----------------------------------------------------------------------------
(* Bounds of the model *)

\* longest sample handed to the entropy and mutual-information estimators
MaxLen == 3

\* longest return series handed to the Hurst estimator and detect_risk_factors
MaxReturns == 9

\* number of states of the modelled random generator
RngStates == 4

\* sample values of the estimator inputs: unevenly spaced, so that a value can
\* lie on an interior bin edge off the centre of the range
Vals == {0, 1, 3}

\* values of a return series
ReturnVals == {0, 1}

SeqsUpTo(S, n) == UNION {[1..k -> S] : k \in 1..n}

Samples == SeqsUpTo(Vals, MaxLen)

ReturnSeries == SeqsUpTo(ReturnVals, MaxReturns)

-----------------------------------------------------------------------------
(* Integer helpers *)

Abs(a) == IF a < 0 THEN -a ELSE a

MinOf(a, b) == IF a < b THEN a ELSE b

MaxOf(a, b) == IF a > b THEN a ELSE b

RECURSIVE Gcd(_, _)
Gcd(a, b) == IF b = 0 THEN a ELSE Gcd(b, a % b)

\* np.cumsum(s), started from acc
RECURSIVE CumSum(_, _)
CumSum(s, acc) == IF s = <<>> THEN <<>> ELSE <<acc + Head(s)>> \o CumSum(Tail(s), acc + Head(s))

RECURSIVE SumSeq(_)
SumSeq(s) == IF s = <<>> THEN 0 ELSE Head(s) + SumSeq(Tail(s))

RECURSIVE SeqMin(_)
SeqMin(s) == IF Len(s) = 1 THEN s[1] ELSE MinOf(s[1], SeqMin(Tail(s)))

RECURSIVE SeqMax(_)
SeqMax(s) == IF Len(s) = 1 THEN s[1] ELSE MaxOf(s[1], SeqMax(Tail(s)))

\* the sequence with the values of f on 1..n, as an explicit tuple
Tup(f) == <<>> \o f

IsConstant(s) == \A i \in DOMAIN s : s[i] = s[1]

-----------------------------------------------------------------------------
(* Scores: a float is NaN or an exact rational num/den with den > 0 *)

NaN == [nan |-> TRUE, num |-> 0, den |-> 1]

R(n, d) ==
    LET g == Gcd(Abs(n), Abs(d))
        s == IF d < 0 THEN -1 ELSE 1
    IN  [nan |-> FALSE, num |-> s * (n \div g), den |-> s * (d \div g)]

\* Python float comparisons: every comparison with NaN is false
Gt(a, b) == ~a.nan /\ ~b.nan /\ a.num * b.den > b.num * a.den

Lt(a, b) == ~a.nan /\ ~b.nan /\ a.num * b.den < b.num * a.den

Add(a, b) ==
    IF a.nan \/ b.nan THEN NaN ELSE R(a.num * b.den + b.num * a.den, a.den * b.den)

Sub(a, b) ==
    IF a.nan \/ b.nan THEN NaN ELSE R(a.num * b.den - b.num * a.den, a.den * b.den)

\* only used with a nonzero divisor, as in the code
Div(a, b) ==
    IF a.nan \/ b.nan THEN NaN ELSE R(a.num * b.den, a.den * b.num)

Zero == R(0, 1)

\* np.log2 of a positive integer, in thousandths of a bit
Log2Milli(k) ==
    << 0, 1000, 1585, 2000, 2322, 2585, 2807, 3000, 3170, 3322, 3459, 3585,
       3700, 3807, 3907, 4000, 4087, 4170, 4248, 4322, 4392, 4459, 4524, 4585,
       4644, 4700, 4755, 4807, 4858, 4907, 4954, 5000 >>[k]

-----------------------------------------------------------------------------
(* np.histogram / np.histogram2d with an integer bin count *)

\* the data range; an empty sample has range (0, 1)
RangeLo(x) == IF x = <<>> THEN 0 ELSE SeqMin(x)

RangeHi(x) == IF x = <<>> THEN 1 ELSE SeqMax(x)

\* bins of width 1 from the minimum on, whatever the spread of the data
BinIndexUnitWidth(v, lo, hi, nb) ==
    IF v - lo >= nb THEN nb - 1 ELSE v - lo

\* The bin of value v among nb equal-width bins over [lo, hi]: bins are
\* half-open [e_i, e_i+1) except the last, which is closed.  A zero-width range
\* is widened to [lo - 0.5, hi + 0.5] first.
BinIndex(v, lo, hi, nb) ==
    IF lo = hi
    THEN nb \div 2
    ELSE LET k == ((v - lo) * nb) \div (hi - lo) IN IF k >= nb THEN nb - 1 ELSE k

\* counts, as np.histogram(x, bins = nb)[0]: bin b is entry b + 1; nb >= 1
Histogram(x, nb) ==
    LET lo == RangeLo(x)
        hi == RangeHi(x)
        bin == Tup([i \in DOMAIN x |-> BinIndex(x[i], lo, hi, nb)])
    IN  Tup([b \in 1..nb |-> Cardinality({i \in DOMAIN x : bin[i] = b - 1})])

\* counts, as np.histogram2d(x, y, bins = (nb, nb))[0].ravel(): row-major, the
\* bin of x first; Len(x) = Len(y), nb >= 1
Histogram2d(x, y, nb) ==
    LET binx == Tup([i \in DOMAIN x |-> BinIndex(x[i], RangeLo(x), RangeHi(x), nb)])
        biny == Tup([i \in DOMAIN y |-> BinIndex(y[i], RangeLo(y), RangeHi(y), nb)])
    IN  Tup([c \in 1..(nb * nb) |->
                Cardinality({i \in DOMAIN x : /\ binx[i] = (c - 1) \div nb
                                              /\ biny[i] = (c - 1) % nb})])

\* H of lines 9-11 and 24-27: p = counts / counts.sum(); p = p[p > 0];
\* -sum(p * log2 p), in thousandths of a bit.  With no data p is NaN
\* everywhere, p > 0 keeps nothing and the sum is 0.
H(counts) ==
    LET n == SumSeq(counts)
        p == SelectSeq(counts, LAMBDA c : c > 0)
        t == Tup([k \in DOMAIN p |-> p[k] * (Log2Milli(n) - Log2Milli(p[k]))])
    IN  IF n = 0 THEN Zero ELSE R(SumSeq(t), n)

-----------------------------------------------------------------------------
(* numpy's global random generator (np.random.randn, line 7): a deterministic *)
(* generator whose state every draw advances                                  *)

RngNext(s) == (s + 1) % RngStates

\* the value drawn in state s, in units of the jitter amplitude: unevenly
\* spaced, of both signs, and different in different states
RngOut(s) == s * s - 2

RECURSIVE RngAfter(_, _)
RngAfter(s, n) == IF n = 0 THEN s ELSE RngAfter(RngNext(s), n - 1)

\* np.random.randn(n) started in state s
Randn(s, n) == Tup([i \in 1..n |-> RngOut(RngAfter(s, i - 1))])

\* 1 / 1e-12 (line 7) in model units: the noise is an integer, the sample is
\* scaled up by this factor
NoiseDen == 1000

-----------------------------------------------------------------------------
(* _shannon_entropy, lines 3-15 *)

\* the normalisation left out: the raw entropy in bits is returned
shannon_entropy_raw(x, bins, normalize, s) ==
    LET degenerate == x # <<>> /\ IsConstant(x)
        s2 == IF degenerate THEN RngAfter(s, Len(x)) ELSE s
        z  == Randn(s, Len(x))
        xj == IF degenerate THEN Tup([i \in DOMAIN x |-> x[i] * NoiseDen + z[i]]) ELSE x
    IN  IF bins < 1
        THEN [raised |-> TRUE, val |-> NaN, rng |-> s2]
        ELSE [raised |-> FALSE, val |-> Div(H(Histogram(xj, bins)), R(1000, 1)), rng |-> s2]

\* x: the sample, bins: the bin count, normalize: the flag, s: the generator's
\* state at the call.  np.histogram raises ValueError for bins < 1.
shannon_entropy(x, bins, normalize, s) ==
    LET degenerate == x # <<>> /\ IsConstant(x)
        s2 == IF degenerate THEN RngAfter(s, Len(x)) ELSE s
        z  == Randn(s, Len(x))
        xj == IF degenerate THEN Tup([i \in DOMAIN x |-> x[i] * NoiseDen + z[i]]) ELSE x
    IN  IF bins < 1
        THEN [raised |-> TRUE, val |-> NaN, rng |-> s2]
        ELSE LET counts == Histogram(xj, bins)
                 Hb     == H(counts)
                 Hmax   == R(Log2Milli(bins), 1)
             IN  [raised |-> FALSE,
                  val    |-> IF ~normalize THEN Div(Hb, R(1000, 1))
                             ELSE IF Gt(Hmax, Zero) THEN Div(Hb, Hmax) ELSE NaN,
                  rng    |-> s2]

-----------------------------------------------------------------------------
(* _mutual_information_norm, lines 17-34 *)

\* a symmetric normalisation: MI divided by the smaller marginal entropy
mutual_information_norm_sym(x, y, bins) ==
    IF bins < 1 \/ Len(x) # Len(y)
    THEN [raised |-> TRUE, val |-> NaN]
    ELSE LET Hx  == H(Histogram(x, bins))
             Hy  == H(Histogram(y, bins))
             Hxy == H(Histogram2d(x, y, bins))
             MI  == Sub(Add(Hx, Hy), Hxy)
             Hm  == IF Lt(Hy, Hx) THEN Hy ELSE Hx
         IN  [raised |-> FALSE, val |-> IF Gt(Hm, Zero) THEN Div(MI, Hm) ELSE NaN]

\* np.histogram raises ValueError for bins < 1, np.histogram2d for samples of
\* different lengths
mutual_information_norm(x, y, bins) ==
    IF bins < 1 \/ Len(x) # Len(y)
    THEN [raised |-> TRUE, val |-> NaN]
    ELSE LET Hx  == H(Histogram(x, bins))
             Hy  == H(Histogram(y, bins))
             Hxy == H(Histogram2d(x, y, bins))
             MI  == Sub(Add(Hx, Hy), Hxy)
         IN  [raised |-> FALSE, val |-> IF Gt(Hx, Zero) THEN Div(MI, Hx) ELSE NaN]

-----------------------------------------------------------------------------
(* the classifier of detect_risk_factors, lines 73-79 *)

HurstThreshold == R(5, 10)

EntropyThreshold == R(9, 10)

MiThreshold == R(5, 100)

\* the thresholds taken inclusively
ClassifyInclusive(H_ent, mi_norm, hurst) ==
    IF ~Lt(hurst, HurstThreshold) /\ ~hurst.nan /\ ~Lt(H_ent, EntropyThreshold) /\ ~H_ent.nan
       /\ ~Gt(mi_norm, MiThreshold) /\ ~mi_norm.nan
    THEN "structural_time_bomb"
    ELSE IF ~Lt(hurst, HurstThreshold) /\ ~hurst.nan /\ ~Lt(H_ent, EntropyThreshold) /\ ~H_ent.nan
    THEN "chaotic_memory"
    ELSE IF ~Gt(mi_norm, MiThreshold) /\ ~mi_norm.nan
    THEN "blocked_flow"
    ELSE "latent"

\* a classifier that sends every record with a NaN score to latent
ClassifyNanLatent(H_ent, mi_norm, hurst) ==
    IF H_ent.nan \/ mi_norm.nan \/ hurst.nan
    THEN "latent"
    ELSE IF Gt(hurst, HurstThreshold) /\ Gt(H_ent, EntropyThreshold) /\ Lt(mi_norm, MiThreshold)
    THEN "structural_time_bomb"
    ELSE IF Gt(hurst, HurstThreshold) /\ Gt(H_ent, EntropyThreshold)
    THEN "chaotic_memory"
    ELSE IF Lt(mi_norm, MiThreshold)
    THEN "blocked_flow"
    ELSE "latent"

Classify(H_ent, mi_norm, hurst) ==
    IF Gt(hurst, HurstThreshold) /\ Gt(H_ent, EntropyThreshold) /\ Lt(mi_norm, MiThreshold)
    THEN "structural_time_bomb"
    ELSE IF Gt(hurst, HurstThreshold) /\ Gt(H_ent, EntropyThreshold)
    THEN "chaotic_memory"
    ELSE IF Lt(mi_norm, MiThreshold)
    THEN "blocked_flow"
    ELSE "latent"

-----------------------------------------------------------------------------
(* Python slicing *)

\* a slice bound resolved against a sequence of length n: negative bounds
\* count from the end, and every bound is clamped to 0..n
SliceBound(b, n) == IF b < 0 THEN MaxOf(n + b, 0) ELSE MinOf(b, n)

\* s[start:stop] (0-based, stop excluded)
PySlice(s, start, stop) ==
    LET lo == SliceBound(start, Len(s))
        hi == SliceBound(stop, Len(s))
    IN  IF lo >= hi THEN <<>> ELSE SubSeq(s, lo + 1, hi)

-----------------------------------------------------------------------------
(* np.floor(np.logspace(log10(a), log10(m), num = 10)).astype(int), line 42 *)

\* naturals beyond the range of the model checker's integers: little-endian
\* digit sequences in base BigBase
BigBase == 10000

RECURSIVE BigTimes(_, _, _)
BigTimes(b, k, carry) ==
    IF b = <<>>
    THEN IF carry = 0 THEN <<>> ELSE <<carry>>
    ELSE LET t == Head(b) * k + carry
         IN  <<t % BigBase>> \o BigTimes(Tail(b), k, t \div BigBase)

RECURSIVE BigTimesPow(_, _, _)
BigTimesPow(b, k, e) == IF e = 0 THEN b ELSE BigTimesPow(BigTimes(b, k, 0), k, e - 1)

RECURSIVE BigLeq(_, _)
BigLeq(a, b) ==
    IF Len(a) # Len(b) THEN Len(a) < Len(b)
    ELSE IF a = <<>> THEN TRUE
    ELSE IF a[Len(a)] # b[Len(b)] THEN a[Len(a)] < b[Len(b)]
    ELSE BigLeq(SubSeq(a, 1, Len(a) - 1), SubSeq(b, 1, Len(b) - 1))

NumSizes == 10

\* the default of min_window, line 36
DefaultMinWindow == 16

\* floor of the j-th of the 10 logarithmically spaced values between a and m
\* (j = 0 gives a, j = 9 gives m): the k with k^9 <= a^(9-j) * m^j < (k+1)^9
LogspaceFloor(a, m, j) ==
    LET n == NumSizes - 1
        P == BigTimesPow(BigTimesPow(<<1>>, a, n - j), m, j)
    IN  CHOOSE k \in 0..MaxOf(a, m) :
            /\ BigLeq(BigTimesPow(<<1>>, k, n), P)
            /\ ~BigLeq(BigTimesPow(<<1>>, k + 1, n), P)

\* the 10 floors for every pair of bounds the model uses, computed once
LogspaceFloors ==
    Tup([a \in 1..DefaultMinWindow |->
        Tup([m \in 1..MaxReturns |->
            IF a \in {2, 3, DefaultMinWindow} /\ 2 * m <= MaxReturns
            THEN Tup([j \in 1..NumSizes |-> LogspaceFloor(a, m, j - 1)])
            ELSE <<>>])])

\* what the cast of a NaN to an integer gives: the most negative integer, or 0
\* on other targets (the model's stand-in for the most negative integer is -1)
NanAsInt == {-1, 0}

\* the window sizes of a series of length N: 0-based below, as a sequence here.
\* For N < 2 max_window is 0, log10(0) is -inf, and linspace gives NaN first
\* (0 * -inf) and -inf after: the sizes are the cast of NaN, then zeros.
WindowSizes(N, min_window, nanint) ==
    LET max_window == N \div 2
    IN  IF max_window = 0
        THEN Tup([j \in 1..NumSizes |-> IF j = 1 THEN nanint ELSE 0])
        ELSE LogspaceFloors[min_window][max_window]

-----------------------------------------------------------------------------
(* _hurst_exponent_rs, lines 36-64 *)

\* a segment count that rounds up, so that the remainder forms a short segment
NSegCeil(N, w) == (N + w - 1) \div w

\* n_seg = N // w, line 48
NSeg(N, w) == N \div w

\* R of line 53 for a segment, times its length: Y = cumsum(seg - mean(seg))
SegRange(seg) ==
    LET L   == Len(seg)
        tot == SumSeq(seg)
        Y   == CumSum(Tup([k \in 1..L |-> L * seg[k] - tot]), 0)
    IN  SeqMax(Y) - SeqMin(Y)

\* the square of S of line 54 for a segment, times the square of its length
SegVariance(seg) ==
    LET L == Len(seg) IN L * SumSeq(Tup([k \in 1..L |-> seg[k] * seg[k]])) - SumSeq(seg) * SumSeq(seg)

\* segment i (0-based) of window size w, lines 51-54: the indices lo..hi-1 the
\* slice x[i*w:(i+1)*w] covers, and the segment's R and S^2
Segment(xc, i, w) ==
    LET seg == PySlice(xc, i * w, (i + 1) * w)
    IN  [lo |-> SliceBound(i * w, Len(xc)),
         hi |-> SliceBound((i + 1) * w, Len(xc)),
         R  |-> SegRange(seg),
         V  |-> SegVariance(seg)]

\* one pass of the loop of lines 45-58 for window size w; rs_vals holds R and
\* S^2 of the segments with S > 0 (R / S is R / sqrt(V))
Window(xc, w) ==
    IF w < 2
    THEN [w |-> w, skipped |-> TRUE, segs |-> <<>>, rs_vals |-> <<>>]
    ELSE LET segs == Tup([i \in 1..NSeg(Len(xc), w) |-> Segment(xc, i - 1, w)])
         IN  [w |-> w, skipped |-> FALSE, segs |-> segs,
              rs_vals |-> SelectSeq(segs, LAMBDA g : g.V > 0)]

\* RS of line 58: one entry per pass that produced an R/S value, in the order
\* of the loop; rs holds R and S^2 of each segment whose R/S enters the mean
Retained(wins) ==
    LET kept == SelectSeq(wins, LAMBDA win : win.rs_vals # <<>>)
    IN  Tup([k \in 1..Len(kept) |->
                [w |-> kept[k].w,
                 rs |-> Tup([i \in DOMAIN kept[k].rs_vals |->
                               [R |-> kept[k].rs_vals[i].R, V |-> kept[k].rs_vals[i].V]])]])

\* lines 38-58: the window sizes, the passes of the loop and RS.  nanint is the
\* outcome of the NaN cast, which only a series with N < 2 meets.
hurst_windows(x, min_window, nanint) ==
    LET N     == Len(x)
        tot   == SumSeq(x)
        xc    == Tup([i \in 1..N |-> N * x[i] - tot])
        sizes == WindowSizes(N, min_window, nanint)
        wins  == Tup([j \in 1..NumSizes |-> Window(xc, sizes[j])])
    IN  [sizes |-> sizes, wins |-> wins, RS |-> Retained(wins)]

\* every R/S value of every retained window is 1 (R^2 = S^2), so that every
\* ordinate log(mean R/S) of the fit is 0
AllUnit(RS) == \A k \in DOMAIN RS : \A i \in DOMAIN RS[k].rs : RS[k].rs[i].R * RS[k].rs[i].R = RS[k].rs[i].V

\* lines 60-64: NaN without a retained window, else the slope np.polyfit
\* returns for the points (log w, log mean R/S).  The least-squares (for a
\* single abscissa: minimum-norm) fit of ordinates that are all 0 is 0.  The
\* model computes no other fit: slope is then any of the values of Slopes.
hurst_value(RS, slope) ==
    IF RS = <<>> THEN NaN ELSE IF AllUnit(RS) THEN Zero ELSE slope

Slopes == {R(4, 10), R(6, 10)}

NanCasts(N) == IF N < 2 THEN NanAsInt ELSE {0}

-----------------------------------------------------------------------------
(* detect_risk_factors, lines 66-86 *)

\* returns[mi_lag:]
LagX(returns, mi_lag) == PySlice(returns, mi_lag, Len(returns))

\* returns[:-mi_lag]
LagY(returns, mi_lag) == PySlice(returns, 0, -mi_lag)

\* lines 69-71 up to the fit: an exception of an estimator ends the call
detect_estimates(returns, bins, mi_lag, s, nanint) ==
    LET e == shannon_entropy(returns, bins, TRUE, s)
        x == LagX(returns, mi_lag)
        y == LagY(returns, mi_lag)
        m == IF e.raised THEN [raised |-> TRUE, val |-> NaN]
             ELSE mutual_information_norm(x, y, bins)
    IN  [raised  |-> e.raised \/ m.raised,
         x       |-> IF e.raised THEN <<>> ELSE x,
         y       |-> IF e.raised THEN <<>> ELSE y,
         entropy |-> e.val,
         mi_norm |-> m.val,
         RS      |-> IF e.raised \/ m.raised THEN <<>>
                     ELSE hurst_windows(returns, DefaultMinWindow, nanint).RS,
         rng     |-> e.rng]

\* lines 71-86: the Hurst value, the flag and the result record
detect_risk_factors(est, slope) ==
    LET hurst == hurst_value(est.RS, slope)
    IN  IF est.raised
        THEN [raised |-> TRUE, entropy |-> NaN, mi_norm |-> NaN, hurst |-> NaN,
              risk_flag |-> ""]
        ELSE [raised |-> FALSE, entropy |-> est.entropy, mi_norm |-> est.mi_norm,
              hurst |-> hurst, risk_flag |-> Classify(est.entropy, est.mi_norm, hurst)]

-----------------------------------------------------------------------------
(* State: one record per component, holding the arguments of a call and,   *)
(* once it has run, what it returned                                        *)

IdleEnt == [phase |-> "idle", x |-> <<>>, bins |-> 0, normalize |-> TRUE,
            raised |-> FALSE, val |-> NaN]

IdleMi == [phase |-> "idle", x |-> <<>>, y |-> <<>>, bins |-> 0,
           raised |-> FALSE, val |-> NaN]

IdleHu == [phase |-> "idle", x |-> <<>>, min_window |-> 0, nanint |-> 0, slope |-> NaN,
           sizes |-> <<>>, wins |-> <<>>, RS |-> <<>>, val |-> NaN]

IdleCls == [phase |-> "idle", entropy |-> NaN, mi_norm |-> NaN, hurst |-> NaN,
            risk_flag |-> ""]

IdleDet == [phase |-> "idle", returns |-> <<>>, bins |-> 0, mi_lag |-> 0, calls |-> 0,
            nanint |-> 0, slope |-> NaN,
            raised |-> FALSE, x |-> <<>>, y |-> <<>>,
            entropy |-> NaN, mi_norm |-> NaN, hurst |-> NaN, risk_flag |-> ""]

\* bin counts handed to the entropy estimator; 30 is the default
DefaultBins == 30

EntropyBins == {-1, 0, 1, 2, 3, DefaultBins}

MiBins == {1, 2, 3}

MinWindows == {2, 3, DefaultMinWindow}

DetectBins == {1, 2}

Lags == {0, 1}

\* scores handed to the classifier, in hundredths, and NaN
Hundredths == {0, 4, 5, 6, 49, 50, 51, 89, 90, 91, 100}

Scores == {NaN} \cup {R(h, 100) : h \in Hundredths}

\* calls of detect_risk_factors on one series
MaxCalls == 2

-----------------------------------------------------------------------------
(* the entropy estimator *)

InitEntropy ==
    /\ rng \in 0..(RngStates - 1)
    /\ ent \in {[IdleEnt EXCEPT !.phase = "ready", !.x = x, !.bins = b, !.normalize = n] :
                    x \in Samples, b \in EntropyBins, n \in BOOLEAN}
    /\ mi = IdleMi /\ hu = IdleHu /\ cls = IdleCls /\ det = IdleDet

EntropyCall ==
    /\ ent.phase = "ready"
    /\ \E r \in {shannon_entropy(ent.x, ent.bins, ent.normalize, rng)} :
          /\ ent' = [ent EXCEPT !.phase = "done", !.raised = r.raised, !.val = r.val]
          /\ rng' = r.rng
    /\ UNCHANGED <<mi, hu, cls, det>>

SpecEntropy == InitEntropy /\ [][EntropyCall]_vars

-----------------------------------------------------------------------------
(* the mutual-information estimator *)

InitMi ==
    /\ rng = 0
    /\ mi \in {[IdleMi EXCEPT !.phase = "ready", !.x = x, !.y = y, !.bins = b] :
                    x \in Samples, y \in Samples, b \in MiBins}
    /\ Len(mi.x) = Len(mi.y)
    /\ ent = IdleEnt /\ hu = IdleHu /\ cls = IdleCls /\ det = IdleDet

MiCall ==
    /\ mi.phase = "ready"
    /\ \E r \in {mutual_information_norm(mi.x, mi.y, mi.bins)} :
          mi' = [mi EXCEPT !.phase = "done", !.raised = r.raised, !.val = r.val]
    /\ UNCHANGED <<rng, ent, hu, cls, det>>

SpecMi == InitMi /\ [][MiCall]_vars

-----------------------------------------------------------------------------
(* the Hurst estimator *)

InitHurst ==
    /\ rng = 0
    /\ hu \in {[IdleHu EXCEPT !.phase = "ready", !.x = x, !.min_window = w, !.slope = f] :
                    x \in ReturnSeries, w \in MinWindows, f \in Slopes}
    /\ \E c \in NanCasts(Len(hu.x)) : hu.nanint = c
    /\ ent = IdleEnt /\ mi = IdleMi /\ cls = IdleCls /\ det = IdleDet

HurstCall ==
    /\ hu.phase = "ready"
    /\ \E r \in {hurst_windows(hu.x, hu.min_window, hu.nanint)} :
          hu' = [hu EXCEPT !.phase = "done", !.sizes = r.sizes, !.wins = r.wins,
                           !.RS = r.RS, !.val = hurst_value(r.RS, hu.slope)]
    /\ UNCHANGED <<rng, ent, mi, cls, det>>

SpecHurst == InitHurst /\ [][HurstCall]_vars

-----------------------------------------------------------------------------
(* the classifier on its own *)

InitClassify ==
    /\ rng = 0
    /\ cls \in {[IdleCls EXCEPT !.phase = "ready", !.entropy = e, !.mi_norm = m, !.hurst = h] :
                    e \in Scores, m \in Scores, h \in Scores}
    /\ ent = IdleEnt /\ mi = IdleMi /\ hu = IdleHu /\ det = IdleDet

ClassifyCall ==
    /\ cls.phase = "ready"
    /\ cls' = [cls EXCEPT !.phase = "done",
                          !.risk_flag = Classify(cls.entropy, cls.mi_norm, cls.hurst)]
    /\ UNCHANGED <<rng, ent, mi, hu, det>>

SpecClassify == InitClassify /\ [][ClassifyCall]_vars

-----------------------------------------------------------------------------
(* detect_risk_factors, called up to MaxCalls times on the same arguments *)

InitDetect ==
    /\ rng \in 0..(RngStates - 1)
    /\ det \in {[IdleDet EXCEPT !.phase = "ready", !.returns = r, !.bins = b, !.mi_lag = k,
                                !.slope = f] :
                    r \in ReturnSeries, b \in DetectBins, k \in Lags, f \in Slopes}
    /\ \E c \in NanCasts(Len(det.returns)) : det.nanint = c
    /\ ent = IdleEnt /\ mi = IdleMi /\ hu = IdleHu /\ cls = IdleCls

DetectCall ==
    /\ det.phase \in {"ready", "done"}
    /\ det.calls < MaxCalls
    /\ \E est \in {detect_estimates(det.returns, det.bins, det.mi_lag, rng, det.nanint)} :
          /\ \E r \in {detect_risk_factors(est, det.slope)} :
                det' = [det EXCEPT !.phase = "done", !.calls = @ + 1,
                                   !.raised = r.raised, !.x = est.x, !.y = est.y,
                                   !.entropy = r.entropy, !.mi_norm = r.mi_norm,
                                   !.hurst = r.hurst, !.risk_flag = r.risk_flag]
          /\ rng' = est.rng
    /\ UNCHANGED <<ent, mi, hu, cls>>

SpecDetect == InitDetect /\ [][DetectCall]_vars

-----------------------------------------------------------------------------
(* Properties of the classifier *)

\* a score above / below a bound given in hundredths; false for NaN
Above(v, h) == ~v.nan /\ 100 * v.num > h * v.den

Below(v, h) == ~v.nan /\ 100 * v.num < h * v.den

Exactly(v, h) == ~v.nan /\ 100 * v.num = h * v.den

Flags == {"structural_time_bomb", "chaotic_memory", "blocked_flow", "latent"}

\* C1: the flag is the first match of: hurst > 0.5 and entropy > 0.9 and
\* mi < 0.05 give structural_time_bomb; hurst > 0.5 and entropy > 0.9 give
\* chaotic_memory; mi < 0.05 gives blocked_flow; anything else is latent.  The
\* comparisons are strict (a score on its threshold does not pass it), and a
\* record whose three scores are NaN is latent.
C1_FirstMatch ==
    cls.phase = "done" =>
        LET persistent == Above(cls.hurst, 50) /\ Above(cls.entropy, 90)
            blocked    == Below(cls.mi_norm, 5)
        IN  /\ cls.risk_flag \in Flags
            /\ cls.risk_flag = "structural_time_bomb" <=> (persistent /\ blocked)
            /\ cls.risk_flag = "chaotic_memory" <=> (persistent /\ ~blocked)
            /\ cls.risk_flag = "blocked_flow" <=> (~persistent /\ blocked)
            /\ cls.risk_flag = "latent" <=> (~persistent /\ ~blocked)
            /\ (Exactly(cls.hurst, 50) \/ Exactly(cls.entropy, 90))
                  => cls.risk_flag \in {"blocked_flow", "latent"}
            /\ Exactly(cls.mi_norm, 5) => cls.risk_flag \in {"chaotic_memory", "latent"}
            /\ (cls.hurst.nan /\ cls.entropy.nan /\ cls.mi_norm.nan) => cls.risk_flag = "latent"

\* the classifier has run on a Hurst value on its threshold, with the entropy
\* above and the normalised MI below theirs
C1_OnThreshold ==
    /\ cls.phase = "done"
    /\ Exactly(cls.hurst, 50) /\ Above(cls.entropy, 90) /\ Below(cls.mi_norm, 5)
    /\ cls.risk_flag = "blocked_flow"

-----------------------------------------------------------------------------
(* Properties of detect_risk_factors *)

Returned == det.phase = "done" /\ ~det.raised

\* C2 as stated: a record with a NaN among its three scores is flagged latent
C2_NanIsLatent ==
    (Returned /\ (det.hurst.nan \/ det.entropy.nan \/ det.mi_norm.nan))
        => det.risk_flag = "latent"

\* C2: a NaN score passes no threshold.  With a NaN Hurst value or a NaN
\* entropy the flag is blocked_flow when the normalised MI is below 0.05 and
\* latent otherwise; with a NaN normalised MI it is chaotic_memory when the
\* Hurst value is above 0.5 and the entropy above 0.9, and latent otherwise.
\* It is never structural_time_bomb, and it is latent when the normalised MI
\* and one of the other two scores are NaN.
C2_NanPassesNoThreshold ==
    Returned =>
        /\ (det.hurst.nan \/ det.entropy.nan)
              => det.risk_flag = IF Below(det.mi_norm, 5) THEN "blocked_flow" ELSE "latent"
        /\ det.mi_norm.nan
              => det.risk_flag = IF Above(det.hurst, 50) /\ Above(det.entropy, 90)
                                 THEN "chaotic_memory" ELSE "latent"

\* a series none of whose windows gives an R/S value (NaN Hurst value), with
\* a defined normalised MI below 0.05, has been flagged blocked_flow
C2_NanHurstBlockedFlow ==
    /\ Returned
    /\ det.hurst.nan /\ ~det.entropy.nan /\ Below(det.mi_norm, 5)
    /\ det.risk_flag = "blocked_flow"

\* what a call returns or raises
Outcome(d) == <<d.raised, d.entropy, d.mi_norm, d.hurst, d.risk_flag>>

\* C4: two calls on the same arguments give the same record
C4_SameInputSameRecord ==
    [][(det.phase = "done" /\ det'.phase = "done") => Outcome(det') = Outcome(det)]_vars

\* C10: for a lag k with 0 <= k < N the two samples handed to the MI
\* estimator have length N - k each, x[i] = returns[i + k] and
\* y[i] = returns[i]
C10_LagViews ==
    (det.phase = "done" /\ det.mi_lag >= 0 /\ det.mi_lag < Len(det.returns)) =>
        /\ Len(det.x) = Len(det.returns) - det.mi_lag
        /\ Len(det.y) = Len(det.returns) - det.mi_lag
        /\ \A i \in 1..(Len(det.returns) - det.mi_lag) :
              /\ i \in DOMAIN det.x /\ det.x[i] = det.returns[i + det.mi_lag]
              /\ i \in DOMAIN det.y /\ det.y[i] = det.returns[i]

-----------------------------------------------------------------------------
(* Properties of the entropy estimator *)

\* C3: a normalised call with bins <= 1 returns NaN and does not raise
C3_FewBinsGiveNaN ==
    (ent.phase = "done" /\ ent.normalize /\ ent.bins <= 1) => (~ent.raised /\ ent.val.nan)

\* C7: for a sample of at least two values, the default bin count and
\* normalisation on, the call returns a number between 0 and 1 inclusive: it
\* neither raises nor returns NaN, whether or not the sample is constant
C7_UnitInterval ==
    (ent.phase = "done" /\ Len(ent.x) >= 2 /\ ent.bins = DefaultBins /\ ent.normalize) =>
        /\ ~ent.raised
        /\ ~ent.val.nan
        /\ ent.val.num >= 0
        /\ ent.val.num <= ent.val.den

\* a constant sample of three values has been jittered and binned with the
\* default bin count, and the jittered values fell into more than one bin
C7_JitteredConstant ==
    /\ ent.phase = "done"
    /\ Len(ent.x) = 3 /\ IsConstant(ent.x)
    /\ ent.bins = DefaultBins /\ ent.normalize
    /\ ~ent.val.nan /\ ent.val.num > 0

-----------------------------------------------------------------------------
(* Properties of the mutual-information estimator *)

\* a * x + b, element by element
Affine(x, a, b) == Tup([i \in DOMAIN x |-> a * x[i] + b])

\* scale and shift pairs
Affinities == {<<1, 2>>, <<2, 0>>, <<3, -1>>, <<-1, 0>>, <<-2, 1>>}

PositiveAffinities == {t \in Affinities : t[1] > 0}

\* the two count vectors hold the same counts, in whatever order
SameCounts(c, d) ==
    \A v \in 0..MaxLen :
        Cardinality({i \in DOMAIN c : c[i] = v}) = Cardinality({i \in DOMAIN d : d[i] = v})

\* the call on u and v gives what the call on x and y gave
SameEstimate(u, v) == mutual_information_norm(u, v, mi.bins).val = mi.val

\* the bin counts of u are those of x, and those of v are those of y
SameBinCounts(u, v) ==
    /\ SameCounts(Histogram(u, mi.bins), Histogram(mi.x, mi.bins))
    /\ SameCounts(Histogram(v, mi.bins), Histogram(mi.y, mi.bins))

Occupied(x, nb) == {BinIndex(x[i], RangeLo(x), RangeHi(x), nb) : i \in DOMAIN x}

\* C6: the result is NaN exactly when x occupies a single bin; otherwise it
\* is (Hx + Hy - Hxy) / Hx, the MI normalised by the entropy of x alone, so
\* that a y in a single bin with an x in several gives 0
C6_NormalisedByHx ==
    (mi.phase = "done" /\ ~mi.raised) =>
        \E Hx \in {H(Histogram(mi.x, mi.bins))} :
        \E MI \in {Sub(Add(Hx, H(Histogram(mi.y, mi.bins))),
                       H(Histogram2d(mi.x, mi.y, mi.bins)))} :
            /\ mi.val.nan <=> Cardinality(Occupied(mi.x, mi.bins)) = 1
            /\ ~mi.val.nan => mi.val.num * Hx.num * MI.den = MI.num * Hx.den * mi.val.den
            /\ (Cardinality(Occupied(mi.x, mi.bins)) > 1
                  /\ Cardinality(Occupied(mi.y, mi.bins)) = 1) => mi.val = Zero

\* the estimator has run on an x in several bins and a constant y, and
\* returned 0
C6_DegenerateY ==
    /\ mi.phase = "done" /\ ~mi.raised
    /\ mi.x = <<0, 1, 3>> /\ mi.y = <<1, 1, 1>> /\ mi.bins = 3
    /\ mi.val = Zero

-----------------------------------------------------------------------------
(* Properties of the Hurst estimator *)

\* the passes of the loop that computed R/S statistics on at least one segment
Processed == {j \in DOMAIN hu.wins : ~hu.wins[j].skipped /\ hu.wins[j].segs # <<>>}

\* C8: the window sizes used for R/S statistics and fed to the fit are among
\* the ten generated sizes, are at least 2, and none is processed or enters
\* the fit more than once
C8_SizesDeduplicated ==
    hu.phase = "done" =>
        /\ \A j \in Processed :
              /\ hu.wins[j].w >= 2
              /\ \E k \in DOMAIN hu.sizes : hu.sizes[k] = hu.wins[j].w
        /\ \A j \in Processed : \A k \in Processed : j # k => hu.wins[j].w # hu.wins[k].w
        /\ \A j \in DOMAIN hu.RS : hu.RS[j].w >= 2
        /\ \A j \in DOMAIN hu.RS : \A k \in DOMAIN hu.RS : j # k => hu.RS[j].w # hu.RS[k].w

\* the values of x at the 0-based indices lo .. hi - 1 are not all equal
Varies(x, lo, hi) == \E a \in (lo + 1)..hi : \E b \in (lo + 1)..hi : x[a] # x[b]

\* the passes of the loop, in order, with a segment whose values vary
Contributing == SelectSeq(hu.wins, LAMBDA win : \E i \in DOMAIN win.segs :
                                        Varies(hu.x, win.segs[i].lo, win.segs[i].hi))

\* C9: a window size w >= 2 splits the series into floor(N / w) segments,
\* segment i covering the indices i * w .. (i + 1) * w - 1, so that the last
\* N mod w values are in no segment; a segment contributes an R/S value
\* exactly when its values are not all equal (S nonzero); a window size is
\* retained exactly when one of its segments contributed; and with no window
\* size retained the result is NaN
C9_Segmentation ==
    hu.phase = "done" =>
        /\ \A j \in DOMAIN hu.wins :
              \E win \in {hu.wins[j]} :
                 /\ win.skipped <=> win.w < 2
                 /\ win.skipped => (win.segs = <<>> /\ win.rs_vals = <<>>)
                 /\ ~win.skipped =>
                       /\ Len(win.segs) = Len(hu.x) \div win.w
                       /\ \A i \in DOMAIN win.segs :
                             /\ win.segs[i].lo = (i - 1) * win.w
                             /\ win.segs[i].hi = i * win.w
                             /\ win.segs[i].hi <= Len(hu.x)
                       /\ Len(win.rs_vals) =
                             Cardinality({i \in DOMAIN win.segs :
                                            Varies(hu.x, win.segs[i].lo, win.segs[i].hi)})
                       /\ \A i \in DOMAIN win.rs_vals : win.rs_vals[i].V > 0
        /\ Len(hu.RS) = Len(Contributing)
        /\ \A k \in DOMAIN hu.RS : hu.RS[k].w = Contributing[k].w
        /\ hu.val.nan <=> hu.RS = <<>>

\* a series that is not constant has been split into two whole segments with
\* a remainder left over, no segment contributed, and the result is NaN
C9_NothingRetained ==
    /\ hu.phase = "done"
    /\ ~IsConstant(hu.x)
    /\ \E j \in DOMAIN hu.wins :
          /\ Len(hu.wins[j].segs) = 2
          /\ Len(hu.x) % hu.wins[j].w # 0
    /\ hu.RS = <<>> /\ hu.val.nan

=============================================================================
